---- MODULE Spec2Model ----
(***************************************************************************)
(* Grid-state simulator (grid_simulator.py) and report aggregation         *)
(* pipeline (grid_agent.py, outage_manager.py, aemet_client.py).           *)
(*                                                                         *)
(* Units.  Simulator time is in milliseconds.  A voltage magnitude is an   *)
(* integer number of 1/(1000*MagScale) per-unit, so that the multiplication*)
(* by 0.5 of inject_fault is exact, as it is in binary floating point.     *)
(* Angles are in hundredths of a degree.  Magnitudes handled by the agent  *)
(* are in thousandths of a per-unit.  Wall-clock time is in minutes.       *)
(***************************************************************************)
EXTENDS Integers, Sequences, FiniteSets, TLC

VARIABLES
    \* ---- GridSimulator (grid_simulator.py) ----
    current_time,        \* self.current_time
    voltage_magnitudes,  \* self.voltage_magnitudes
    voltage_angles,      \* self.voltage_angles
    active_faults,       \* self.active_faults : list of (bus_id, end_time)
    simOp,               \* the last simulator call, its argument and what it signalled
    returned,            \* the dict a caller holds from its last get_measurements call
    \* ---- module constants of grid_agent.py, read from the environment ----
    CF_ACCOUNT_ID,
    CF_API_TOKEN,
    \* ---- OutageManager (outage_manager.py) ----
    df,                  \* self.df : the outage rows
    \* ---- GridAgent (grid_agent.py) ----
    session,             \* self.session : "None", "open" or "closed"
    scope,               \* the caller's `async with GridAgent() as agent:` statement:
                         \* "before" it, "inside" its body, or "after" it
    pc,                  \* where the call in progress stands
    window,              \* generate_report: start_time, end_time
    measurements,        \* generate_report / analyze_grid_status: measurements
    outages,             \* generate_report / analyze_grid_status: outages
    weather_data,        \* generate_report: weather_data
    observations,        \* fetch_weather: the dicts the provider has answered with
    voltage_stats,       \* generate_report: voltage_stats (None until computed)
    analysis,            \* status, alerts, recommendations (None until computed)
    report,              \* generate_report: report (None until assembled)
    http,                \* narrative_summary: whether called, whether the request
                         \* was sent, and the response received
    raisedIn,            \* the stage inside which an exception was raised, if any
    outcome,             \* what the caller of the call got: a value or an exception
    tasks                \* generate_report calls running as concurrent tasks on
                         \* the one agent: the position and the locals of each

simVars == <<current_time, voltage_magnitudes, voltage_angles, active_faults, simOp, returned>>

agentVars == <<CF_ACCOUNT_ID, CF_API_TOKEN, df, session, scope, pc, window, measurements,
               outages, weather_data, observations, voltage_stats, analysis, report,
               http, raisedIn, outcome, tasks>>

vars == <<simVars, agentVars>>

(***************************************************************************)
(* Bounds of the model.                                                    *)
(***************************************************************************)
bus_count == 2   \* buses of the topology (39 in case39)
MaxFaults == 2   \* entries active_faults may hold
MaxTicks  == 6   \* update_state calls in one behaviour
MaxSeries == 2   \* measurements passed to a direct analyze_grid_status call
MaxOutages == 3  \* active outages passed to a direct analyze_grid_status call
MaxReadTicks == 1 \* update_state calls in a behaviour that reads with get_measurements

(***************************************************************************)
(* GridSimulator constants.                                                *)
(***************************************************************************)
sampling_rate  == 50
time_step      == 1000 \div sampling_rate
fault_duration == 100

MagScale == 2 ^ MaxFaults
ClipLow  == 900 * MagScale
ClipHigh == 1100 * MagScale

Buses == 0 .. (bus_count - 1)
\* bus ids a caller may pass: every valid one, and one on each side out of range
BusArgs == (0 - 1) .. bus_count

\* values drawn for np.random.normal(0, 0.001) and np.random.normal(0, 0.01)
MagNoise == {(0 - 100) * MagScale, 0, 100 * MagScale}
AngNoise == {0 - 1, 0, 1}
\* angles explored: a draw that would leave this range is not taken
AngRange == (0 - 1) .. 1
\* the noise vectors of one tick: magnitude noise perturbs one bus, angle noise
\* is the same on every bus
MagNoiseVecs == {[b \in Buses |-> IF b = k THEN n ELSE 0] : k \in Buses, n \in MagNoise}
AngNoiseVecs == {[b \in Buses |-> n] : n \in AngNoise}
\* the noiseless tick
ZeroNoiseVecs == {[b \in Buses |-> 0]}
\* the power-flow solution the state starts from
InitMags == {1000 * MagScale}
InitAngles == [b \in Buses |-> 0]

ValidBus(bus_id) == 0 <= bus_id /\ bus_id < bus_count

\* inject_fault: the fault entry appended (nothing when out of range)
InjectFaults(faults, now, bus_id) ==
    IF ValidBus(bus_id)
    THEN Append(faults, <<bus_id, now + fault_duration>>)
    ELSE faults

\* the multiplication applied to the whole array instead of one element
InjectMagsWholeArray(mags, bus_id) ==
    IF ValidBus(bus_id)
    THEN [b \in DOMAIN mags |-> mags[b] \div 2]
    ELSE mags

\* inject_fault: voltage_magnitudes[bus_id] *= 0.5 (nothing when out of range)
InjectMags(mags, bus_id) ==
    IF ValidBus(bus_id)
    THEN [mags EXCEPT ![bus_id] = @ \div 2]
    ELSE mags

\* inject_fault returns None on every path: it raises nothing
InjectSignal(bus_id) == "none"

\* the expiry test written end_time >= current_time
PruneFaultsInclusive(faults, now) == SelectSeq(faults, LAMBDA e : e[2] >= now)

\* update_state: the list comprehension clearing expired faults
PruneFaults(faults, now) == SelectSeq(faults, LAMBDA e : e[2] > now)

\* a clip with the upper limit only
ClipUpperOnly(x) == IF x > ClipHigh THEN ClipHigh ELSE x

\* np.clip(x, 0.9, 1.1)
Clip(x) == IF x < ClipLow THEN ClipLow ELSE IF x > ClipHigh THEN ClipHigh ELSE x

\* get_measurements: the returned dict
get_measurements ==
    [timestamp          |-> current_time,
     voltage_magnitudes |-> voltage_magnitudes,
     voltage_angles     |-> voltage_angles,
     active_faults      |-> [i \in 1 .. Len(active_faults) |-> active_faults[i][1]]]

\* an ndarray handed out as it is: the caller's array and the simulator's are
\* one object
ArrayShared(arr) == [data |-> arr, owndata |-> FALSE]

\* ndarray.copy(): a new array that owns its data
ArrayCopy(arr) == [data |-> arr, owndata |-> TRUE]

\* what the arrays of the dict a caller holds show once the simulator's arrays
\* hold mags and angs: inject_fault and update_state write their arrays in
\* place (*=, +=, np.clip(out=...)), so an array sharing their data follows
SeenThrough(r, mags, angs) ==
    IF r = <<>> THEN r
    ELSE <<[r[1] EXCEPT
              !.voltage_magnitudes = IF @.owndata THEN @ ELSE [@ EXCEPT !.data = mags],
              !.voltage_angles     = IF @.owndata THEN @ ELSE [@ EXCEPT !.data = angs]]>>

SimInit ==
    /\ current_time = 0
    /\ voltage_magnitudes \in [Buses -> InitMags]
    /\ voltage_angles = InitAngles
    /\ active_faults = <<>>
    /\ simOp = [op |-> "init", bus_id |-> 0, signal |-> "none"]
    /\ returned = <<>>

\* a direct call inject_fault(bus_id)
inject_fault(bus_id) ==
    /\ Len(active_faults) < MaxFaults
    /\ active_faults' = InjectFaults(active_faults, current_time, bus_id)
    /\ voltage_magnitudes' = InjectMags(voltage_magnitudes, bus_id)
    /\ simOp' = [op |-> "inject_fault", bus_id |-> bus_id, signal |-> InjectSignal(bus_id)]
    /\ UNCHANGED <<current_time, voltage_angles>>
    /\ returned' = SeenThrough(returned, voltage_magnitudes', voltage_angles')
    /\ UNCHANGED agentVars

\* update_state with its random draws: whether a fault is injected and where,
\* and the noise added to every magnitude (from magVecs) and angle (from angVecs)
update_state(magVecs, angVecs) ==
    /\ current_time + time_step <= MaxTicks * time_step
    /\ \E fault \in BOOLEAN, fb \in Buses, mn \in magVecs, an \in angVecs :
        LET now    == current_time + time_step
            faults == IF fault THEN InjectFaults(active_faults, now, fb) ELSE active_faults
            mags   == IF fault THEN InjectMags(voltage_magnitudes, fb) ELSE voltage_magnitudes
        IN  /\ fault => Len(active_faults) < MaxFaults
            /\ ~fault => fb = 0
            /\ \A b \in Buses : voltage_angles[b] + an[b] \in AngRange
            /\ current_time' = now
            /\ active_faults' = PruneFaults(faults, now)
            /\ voltage_magnitudes' = [b \in Buses |-> Clip(mags[b] + mn[b])]
            /\ voltage_angles' = [b \in Buses |-> voltage_angles[b] + an[b]]
            /\ simOp' = [op |-> "update_state", bus_id |-> 0, signal |-> "none"]
            /\ returned' = SeenThrough(returned, voltage_magnitudes', voltage_angles')
    /\ UNCHANGED agentVars

\* a call get_measurements(): the caller keeps the dict
get_measurements_call ==
    /\ returned' = <<[timestamp          |-> get_measurements.timestamp,
                      voltage_magnitudes |-> ArrayCopy(get_measurements.voltage_magnitudes),
                      voltage_angles     |-> ArrayCopy(get_measurements.voltage_angles),
                      active_faults      |-> get_measurements.active_faults]>>
    /\ simOp' = [op |-> "get_measurements", bus_id |-> 0, signal |-> "none"]
    /\ UNCHANGED <<current_time, voltage_magnitudes, voltage_angles, active_faults>>
    /\ UNCHANGED agentVars

\* the value a caller overwrites an element with: one no array of the
\* simulator holds
Overwritten == 0 - 1

\* the caller writes one element of an array of the dict it holds: the
\* simulator's array changes with it when the two share their data
MutateReturned(field, b) ==
    /\ returned # <<>>
    /\ returned' = <<[returned[1] EXCEPT ![field].data[b] = Overwritten]>>
    /\ voltage_magnitudes' =
           IF field = "voltage_magnitudes" /\ ~returned[1][field].owndata
           THEN [voltage_magnitudes EXCEPT ![b] = Overwritten] ELSE voltage_magnitudes
    /\ voltage_angles' =
           IF field = "voltage_angles" /\ ~returned[1][field].owndata
           THEN [voltage_angles EXCEPT ![b] = Overwritten] ELSE voltage_angles
    /\ simOp' = [op |-> "mutate_returned", bus_id |-> b, signal |-> "none"]
    /\ UNCHANGED <<current_time, active_faults>>
    /\ UNCHANGED agentVars

(***************************************************************************)
(* GridAgent: values and pure helpers.                                     *)
(*                                                                         *)
(* An optional value (None or a value) is the empty sequence or a          *)
(* one-element sequence.  A Python str handled character by character is a *)
(* sequence of one-character strings.                                      *)
(***************************************************************************)
None == <<>>
Some(x) == <<x>>

\* classification thresholds, in thousandths of a per-unit
VOLT_LIMIT_CRITICAL_LOW  == 950
VOLT_LIMIT_CRITICAL_HIGH == 1050
VOLT_LIMIT_DEGRADED_LOW  == 970
VOLT_LIMIT_DEGRADED_HIGH == 1030

\* values os.getenv can give a credential: unset ("None"), set but empty, set
CredValues == {"None", "", "set"}
\* the (CF_ACCOUNT_ID, CF_API_TOKEN) environments explored
CredChoices == { <<"None", "None">>, <<"set", "">>, <<"None", "set">>, <<"set", "set">> }
\* a test for None only, which takes an empty string for a credential
TruthyNotNone(x) == x # "None"

\* Python truthiness of an Optional[str]
Truthy(x) == x # "None" /\ x # ""

\* ---- get_voltage_measurements ----
\* magnitudes drawn for 1.0 + np.random.normal(0, 0.02); the angle draw of
\* np.random.uniform(-15, 15) is kept at one value
MagSamples == {940, 960, 1000, 1040, 1060}
AngleSample == 0
\* a sampling that reads the evolving state: each bus's current magnitude (in
\* thousandths) and angle
VoltageDrawsOfState ==
    {[b \in Buses |-> <<voltage_magnitudes[b] \div MagScale, voltage_angles[b]>>]}

\* the dict returned by one call: bus id -> (magnitude, angle); one bus off nominal
VoltageDraws ==
    {[b \in Buses |-> <<(IF b = k THEN m ELSE 1000), AngleSample>>] :
        k \in Buses, m \in MagSamples}

\* ---- fetch_grid_data ----
\* a loop that leaves the end of the window out
RECURSIVE TickTimesExclusive(_, _)
TickTimesExclusive(cur, end) ==
    IF cur < end THEN <<cur>> \o TickTimesExclusive(cur + 5, end) ELSE <<>>

\* a loop that advances current_time before it takes its measurements
RECURSIVE TickTimesAdvanceFirst(_, _)
TickTimesAdvanceFirst(cur, end) ==
    IF cur + 5 <= end THEN <<cur + 5>> \o TickTimesAdvanceFirst(cur + 5, end) ELSE <<>>

\* the timestamps the while loop visits
RECURSIVE TickTimes(_, _)
TickTimes(cur, end) ==
    IF cur <= end THEN <<cur>> \o TickTimes(cur + 5, end) ELSE <<>>

\* the GridMeasurement objects appended for one tick, in dict order
RECURSIVE TickMeasurements(_, _, _)
TickMeasurements(t, voltages, b) ==
    IF b >= bus_count THEN <<>>
    ELSE <<[timestamp         |-> t,
            voltage_magnitude |-> voltages[b][1],
            voltage_angle     |-> voltages[b][2],
            bus_id            |-> b]>> \o TickMeasurements(t, voltages, b + 1)

\* the list built by the loop, given the dict drawn at each tick
RECURSIVE GridData(_, _)
GridData(times, draws) ==
    IF times = <<>> THEN <<>>
    ELSE TickMeasurements(Head(times), Head(draws), 0) \o GridData(Tail(times), Tail(draws))

\* ---- OutageManager ----
\* a filter that leaves out the outages starting exactly at end_time
get_active_outages_before(rows, end_time) ==
    SelectSeq(rows, LAMBDA o : o.timestamp < end_time /\ o.resolved = FALSE)

get_active_outages(rows, end_time) ==
    SelectSeq(rows, LAMBDA o : o.timestamp <= end_time /\ o.resolved = FALSE)

\* OutageManager.__init__ reads the file with parse_dates=["timestamp"]: only
\* the timestamp column becomes datetimes.  A resolved_time cell that is
\* filled in stays the str read from the file (Some(t): the text of minute
\* t); a store with none filled in has the all-NaT column.
ResolvedTimeIsText(rows) == \E i \in DOMAIN rows : rows[i].resolved_time # None

\* the three masks are computed over whole columns before any row is
\* selected: `>=` between a str and a datetime raises TypeError, whatever the
\* resolved flag of that row; a comparison with NaT is False
get_resolved_outages(rows, start_time, end_time) ==
    IF ResolvedTimeIsText(rows)
    THEN [raised |-> "TypeError", value |-> None]
    ELSE [raised |-> "none",
          value  |-> Some(SelectSeq(rows, LAMBDA o : /\ o.resolved = TRUE
                                                     /\ o.resolved_time # None))]

\* ---- statistics ----
RECURSIVE SeqMin(_)
SeqMin(s) ==
    IF Len(s) = 1 THEN s[1]
    ELSE LET m == SeqMin(Tail(s)) IN IF s[1] <= m THEN s[1] ELSE m

RECURSIVE SeqMax(_)
SeqMax(s) ==
    IF Len(s) = 1 THEN s[1]
    ELSE LET m == SeqMax(Tail(s)) IN IF s[1] >= m THEN s[1] ELSE m

RECURSIVE SeqSum(_)
SeqSum(s) == IF s = <<>> THEN 0 ELSE s[1] + SeqSum(Tail(s))

Magnitudes(ms) == [i \in 1 .. Len(ms) |-> ms[i].voltage_magnitude]

\* statistics whose min and max are both taken from the first measurement
VoltageStatsFirstSample(mags) ==
    LET n == Len(mags)
        total == SeqSum(mags)
    IN  [min |-> mags[1],
         max |-> mags[1],
         avg |-> [sum |-> total, n |-> n],
         std |-> [sq_num |-> SeqSum([i \in 1 .. n |->
                                       (n * mags[i] - total) * (n * mags[i] - total)]),
                  sq_den |-> n * n * n]]

\* generate_report: voltage_stats.  avg is the fraction sum/n; std is the
\* square root of the fraction sq_num/sq_den
VoltageStats(mags) ==
    LET n == Len(mags)
        total == SeqSum(mags)
    IN  [min |-> SeqMin(mags),
         max |-> SeqMax(mags),
         avg |-> [sum |-> total, n |-> n],
         std |-> [sq_num |-> SeqSum([i \in 1 .. n |-> (n * mags[i] - total) * (n * mags[i] - total)]),
                  sq_den |-> n * n * n]]

\* ---- analyze_grid_status ----
\* the status test with both critical comparisons made inclusive
ClassifyStatusInclusive(min_voltage, max_voltage) ==
    IF min_voltage <= VOLT_LIMIT_CRITICAL_LOW \/ max_voltage >= VOLT_LIMIT_CRITICAL_HIGH
    THEN "critical"
    ELSE IF min_voltage < VOLT_LIMIT_DEGRADED_LOW \/ max_voltage > VOLT_LIMIT_DEGRADED_HIGH
    THEN "degraded"
    ELSE "normal"

ClassifyStatus(min_voltage, max_voltage) ==
    IF min_voltage < VOLT_LIMIT_CRITICAL_LOW \/ max_voltage > VOLT_LIMIT_CRITICAL_HIGH
    THEN "critical"
    ELSE IF min_voltage < VOLT_LIMIT_DEGRADED_LOW \/ max_voltage > VOLT_LIMIT_DEGRADED_HIGH
    THEN "degraded"
    ELSE "normal"

\* the count taken over the outage records instead of the distinct pairs
NumActiveRecords(active) == Len(active)

\* len({(o.station_id, o.type) for o in active})
NumActive(active) ==
    Cardinality({<<active[i].station_id, active[i].type>> : i \in 1 .. Len(active)})

\* f"{num_active} active outages"
OutageAlert(num_active) == ToString(num_active) \o " active outages"

OutageEntries(num_active, text) == IF num_active # 0 THEN <<text>> ELSE <<>>

StatusEntries(status, critical_text, degraded_text) ==
    IF status = "critical" THEN <<critical_text>>
    ELSE IF status = "degraded" THEN <<degraded_text>>
    ELSE <<>>

\* the two appends made in the opposite order
BuildEntriesStatusFirst(outage_entries, status_entries) == status_entries \o outage_entries

\* the outage block appends first, the status block second
BuildEntries(outage_entries, status_entries) == outage_entries \o status_entries

\* analyze_grid_status: the value returned, or the exception raised by min()
\* of an empty list
analyze_grid_status(ms, outs) ==
    IF ms = <<>>
    THEN [raised |-> "ValueError", value |-> None]
    ELSE LET mags == Magnitudes(ms)
             status == ClassifyStatus(SeqMin(mags), SeqMax(mags))
             num_active == NumActive(outs.active)
         IN [raised |-> "none",
             value  |-> Some(
               [status |-> status,
                alerts |-> BuildEntries(
                    OutageEntries(num_active, OutageAlert(num_active)),
                    StatusEntries(status, "Critical voltage levels detected",
                                          "Voltage levels outside normal range")),
                recommendations |-> BuildEntries(
                    OutageEntries(num_active, "Prioritise restoration for affected substations"),
                    StatusEntries(status, "Immediate action required to stabilise voltage levels",
                        "Monitor voltage levels and prepare for potential corrective action"))])]

\* ---- the outage store ----
\* rows of mock_outages.csv as read by OutageManager.__init__; wall-clock
\* times are minutes, generate_report being called at minute 20; resolved_time
\* is None for an empty cell and Some(t) for a cell holding the text of
\* minute t
RowA1 == [station_id |-> "STN1", type |-> "line", timestamp |-> 10,
          resolved |-> FALSE, resolved_time |-> None]
RowA2 == [station_id |-> "STN1", type |-> "line", timestamp |-> 18,
          resolved |-> FALSE, resolved_time |-> None]
RowB1 == [station_id |-> "STN2", type |-> "transformer", timestamp |-> 20,
          resolved |-> FALSE, resolved_time |-> None]
RowF1 == [station_id |-> "STN2", type |-> "line", timestamp |-> 21,
          resolved |-> FALSE, resolved_time |-> None]
RowR1 == [station_id |-> "STN1", type |-> "transformer", timestamp |-> 5,
          resolved |-> TRUE, resolved_time |-> Some(15)]
RowR2 == [station_id |-> "STN2", type |-> "line", timestamp |-> 5,
          resolved |-> TRUE, resolved_time |-> Some(14)]
\* the stores explored
DfChoices == { <<>>,
               <<RowA1, RowA2, RowB1>>,
               <<RowR1, RowF1, RowA1, RowR2>> }
\* datetime.now() at the call of generate_report
NowChoices == {20}
\* time_range_minutes passed to generate_report
TimeRanges == {0 - 5, 0, 5}

\* ---- the weather provider ----
\* AEMETClient.get_observations, and providers that leave a key out
MockObs == [temperature |-> 225, humidity |-> 650, wind_speed |-> 150,
            precipitation |-> 0, conditions |-> "Clear"]
NoTempObs == [humidity |-> 700, wind_speed |-> 120,
              precipitation |-> 5, conditions |-> "Rain"]
NoHumidityObs == [temperature |-> 225, wind_speed |-> 150,
                  precipitation |-> 0, conditions |-> "Clear"]
ObsChoices == {MockObs, NoTempObs, NoHumidityObs}
\* values drawn for np.random.normal(0, 1), in tenths of a degree
TempNoise == {0 - 10, 10}
\* generate_report: the locations asked for
Locations == <<"Madrid", "Barcelona">>

\* fetch_weather: the keys read with observations[...] once temperature is settled
ObsKeysRead == {"humidity", "wind_speed", "precipitation", "conditions"}

\* a synthesis with the Madrid base for every location
TemperatureOneBase(location, obs, noise) ==
    IF "temperature" \in DOMAIN obs
    THEN obs.temperature
    ELSE 210 + noise

\* fetch_weather: the temperature used for one location
Temperature(location, obs, noise) ==
    IF "temperature" \in DOMAIN obs
    THEN obs.temperature
    ELSE (IF location = "Madrid" THEN 210 ELSE 230) + noise

\* a sample put in front of those already collected
CollectFirst(list, w) == <<w>> \o list

\* weather_data.append(...)
Collect(list, w) == Append(list, w)

\* fetch_weather: one pass of the loop body, after the provider has answered
WeatherSample(location, obs, noise, now) ==
    IF ObsKeysRead \subseteq DOMAIN obs
    THEN [raised |-> "none",
          value  |-> Some([location      |-> location,
                           timestamp     |-> now,
                           temperature   |-> Temperature(location, obs, noise),
                           humidity      |-> obs.humidity,
                           wind_speed    |-> obs.wind_speed,
                           precipitation |-> obs.precipitation,
                           conditions    |-> obs.conditions])]
    ELSE [raised |-> "KeyError", value |-> None]

\* ---- narrative_summary ----
\* JSON values of a response body
JString(chars) == [type |-> "string", chars |-> chars, items |-> <<>>]
JNull == [type |-> "null", chars |-> <<>>, items |-> <<>>]
JList == [type |-> "list", chars |-> <<>>, items |-> <<>>]
JDict(items) == [type |-> "dict", chars |-> <<>>, items |-> items]

\* response texts: Python strings as character sequences
Texts == { <<>>, <<" ", "\n">>, <<"o", "k">>, <<" ", "o", "k", " ", "\n">> }

\* what the endpoint can answer: a transport failure, a status with a body
\* that is not JSON, or a status with a JSON body
TransportError == [kind |-> "transport_error", status |-> 0, json |-> None]
\* no answer within the session's timeout: the post raises asyncio.TimeoutError
TimedOut == [kind |-> "timeout", status |-> 0, json |-> None]
\* a session built with ClientTimeout(total=None): it waits without limit
ClientTimeoutUnset == None
\* aiohttp.ClientSession() is built without a timeout argument: the session
\* carries the library's default, a total of 300 seconds for a request
ClientTimeout == Some([total |-> 300])
HttpResponse(status, json) == [kind |-> "response", status |-> status, json |-> json]
Bodies ==
    { None,
      Some(JNull),
      Some(JList),
      Some(JDict([success |-> JNull])),
      Some(JDict([result |-> JList])),
      Some(JDict([result |-> JDict([usage |-> JNull])])),
      Some(JDict([result |-> JDict([response |-> JNull])])) }
    \cup { Some(JDict([result |-> JDict([response |-> JString(t)])])) : t \in Texts }
Responses ==
    {TransportError, HttpResponse(503, None), HttpResponse(404, Some(JDict([success |-> JNull])))}
    \cup {HttpResponse(200, b) : b \in Bodies}

Whitespace == {" ", "\n", "\t"}

RECURSIVE LStrip(_)
LStrip(s) == IF s # <<>> /\ Head(s) \in Whitespace THEN LStrip(Tail(s)) ELSE s

RECURSIVE RStrip(_)
RStrip(s) ==
    IF s # <<>> /\ s[Len(s)] \in Whitespace THEN RStrip(SubSeq(s, 1, Len(s) - 1)) ELSE s

\* a trim of the leading whitespace only
StripLeftOnly(s) == LStrip(s)

\* str.strip()
Strip(s) == RStrip(LStrip(s))

Placeholder == <<"(LLM produced empty summary)">>

\* `key in v` for a JSON value v: a key test on a dict, a membership test on a
\* list and a substring test on a str (both False on the values explored), a
\* TypeError on None
KeyIn(key, v) ==
    IF v.type = "dict" THEN [raised |-> "none", value |-> key \in DOMAIN v.items]
    ELSE IF v.type \in {"list", "string"} THEN [raised |-> "none", value |-> FALSE]
    ELSE [raised |-> "TypeError", value |-> FALSE]

\* the 200 branch, given the parsed body
NarrativeFromBody(result) ==
    LET hasResult == KeyIn("result", result)
    IN  IF hasResult.raised # "none" THEN [raised |-> hasResult.raised, value |-> None]
        ELSE IF ~hasResult.value THEN [raised |-> "none", value |-> None]
        ELSE LET inner == result.items.result
                 hasResponse == KeyIn("response", inner)
             IN  IF hasResponse.raised # "none"
                 THEN [raised |-> hasResponse.raised, value |-> None]
                 ELSE IF ~hasResponse.value THEN [raised |-> "none", value |-> None]
                 ELSE LET text == inner.items.response
                      IN  IF text.type # "string"
                          THEN [raised |-> "AttributeError", value |-> None]
                          ELSE LET summary == Strip(text.chars)
                               IN [raised |-> "none",
                                   value  |-> Some(IF summary # <<>> THEN summary
                                                   ELSE Placeholder)]

\* the body of the try block: what it returns, or the exception it raises
NarrativeTry(sess, resp) ==
    IF sess = "None" THEN [raised |-> "AttributeError", value |-> None]
    ELSE IF sess = "closed" THEN [raised |-> "RuntimeError", value |-> None]
    ELSE IF resp.kind = "transport_error" THEN [raised |-> "ClientError", value |-> None]
    ELSE IF resp.kind = "timeout" THEN [raised |-> "TimeoutError", value |-> None]
    ELSE IF resp.status # 200 THEN [raised |-> "none", value |-> None]
    ELSE IF resp.json = None THEN [raised |-> "JSONDecodeError", value |-> None]
    ELSE NarrativeFromBody(resp.json[1])

\* a handler that catches the HTTP client's errors only
NarrativeExceptClientOnly(r) ==
    IF r.raised = "ClientError" THEN [raised |-> "none", value |-> None] ELSE r

\* a handler that logs and raises again
NarrativeExceptReraise(r) == r

\* except Exception: print and return None
NarrativeExcept(r) ==
    IF r.raised # "none" THEN [raised |-> "none", value |-> None] ELSE r

\* narrative_summary: the credential test, then the try block under its handler
narrative_summary(acct, tok, sess, resp) ==
    IF ~Truthy(acct) \/ ~Truthy(tok)
    THEN [raised |-> "none", value |-> None]
    ELSE NarrativeExcept(NarrativeTry(sess, resp))

\* whether narrative_summary gets as far as sending the request
RequestSent(acct, tok, sess) == Truthy(acct) /\ Truthy(tok) /\ sess = "open"

(***************************************************************************)
(* GridAgent: the operations.                                              *)
(***************************************************************************)
NoOutcome == [kind |-> "pending", exc |-> "none", value |-> None]

\* ---- generate_report calls awaited together, asyncio.gather style ----
TaskIds == {1, 2}
\* time_range_minutes of each call
TaskRange == <<0, 5>>
\* a call not started: its locals, and what its own fetches returned (draws:
\* the dicts of get_voltage_measurements; obs, noise: the provider's answers
\* and the temperature draws), with the position of the other call when this
\* one last ran
NoTask ==
    [pc |-> "IDLE", peer |-> "IDLE", exc |-> "none",
     window |-> [start_time |-> 0, end_time |-> 0],
     draws |-> <<>>, obs |-> <<>>, noise |-> <<>>,
     measurements |-> <<>>, outages |-> [active |-> <<>>, resolved |-> <<>>],
     weather_data |-> <<>>, location |-> 0, report |-> None]

AgentStart(acct, tok, rows) ==
    /\ CF_ACCOUNT_ID = acct
    /\ CF_API_TOKEN = tok
    /\ df = rows
    /\ session = "None"
    /\ scope = "before"
    /\ pc = "IDLE"
    /\ window = [start_time |-> 0, end_time |-> 0]
    /\ measurements = <<>>
    /\ outages = [active |-> <<>>, resolved |-> <<>>]
    /\ weather_data = <<>>
    /\ observations = <<>>
    /\ voltage_stats = None
    /\ analysis = None
    /\ report = None
    /\ http = [called |-> FALSE, requested |-> FALSE, response |-> None]
    /\ raisedIn = "none"
    /\ outcome = NoOutcome
    /\ tasks = [c \in TaskIds |-> NoTask]

\* the agent of a process whose environment and outage file are any of those explored
AgentInit ==
    \E creds \in CredChoices, rows \in DfChoices :
        AgentStart(creds[1], creds[2], rows)

\* the agent left aside while the simulator alone is exercised
AgentIdle == AgentStart("None", "None", <<>>)

\* the stage a position of generate_report belongs to: the three fetches are
\* the collecting stage
Stage(p) ==
    IF p \in {"fetch_grid_data", "fetch_outages", "fetch_weather"} THEN "COLLECTING"
    ELSE p

\* a generate_report that computes the statistics as soon as the grid data is
\* in, before the outages and the weather are fetched
ThenStatisticsFirst(p) ==
    CASE p = "IDLE"            -> "fetch_grid_data"
      [] p = "fetch_grid_data" -> "STATISTICS"
      [] p = "STATISTICS"      -> "fetch_outages"
      [] p = "fetch_outages"   -> "fetch_weather"
      [] p = "fetch_weather"   -> "CLASSIFYING"
      [] p = "CLASSIFYING"     -> "NARRATING"
      [] p = "NARRATING"       -> "COMPLETE"

\* generate_report: the statement reached when the one at position p has
\* completed without an exception
Then(p) ==
    CASE p = "IDLE"            -> "fetch_grid_data"
      [] p = "fetch_grid_data" -> "fetch_outages"
      [] p = "fetch_outages"   -> "fetch_weather"
      [] p = "fetch_weather"   -> "STATISTICS"
      [] p = "STATISTICS"      -> "CLASSIFYING"
      [] p = "CLASSIFYING"     -> "NARRATING"
      [] p = "NARRATING"       -> "COMPLETE"

\* a handler that swallows the exception and returns what has been built so far
PropagateSwallowed(stage, exc) ==
    [pc |-> "COMPLETE", raisedIn |-> stage,
     outcome |-> [kind |-> "returned", exc |-> "none", value |-> report]]

\* generate_report has no handler: an exception raised in it reaches its caller
Propagate(stage, exc) ==
    [pc |-> "FAILED", raisedIn |-> stage,
     outcome |-> [kind |-> "raised", exc |-> exc, value |-> None]]

\* the exception `exc` is raised while generate_report is in `stage`
Raise(stage, exc) ==
    LET p == Propagate(stage, exc)
    IN  /\ pc' = p.pc
        /\ raisedIn' = p.raisedIn
        /\ outcome' = p.outcome

envVars == <<CF_ACCOUNT_ID, CF_API_TOKEN, df>>

\* __aenter__
aenter ==
    /\ pc = "IDLE"
    /\ session' = "open"
    /\ scope' = "inside"
    /\ UNCHANGED <<envVars, tasks, observations, pc, window, measurements, outages, weather_data,
                   voltage_stats, analysis, report, http, raisedIn, outcome>>
    /\ UNCHANGED simVars

\* an __aexit__ that releases the session only when the body raised nothing
CloseSessionOnSuccess(sess, exc_type) ==
    IF sess # "None" /\ exc_type = "none" THEN "closed" ELSE sess

\* __aexit__(exc_type, exc_val, exc_tb): if self.session: await self.session.close()
CloseSession(sess, exc_type) ==
    IF sess # "None" THEN "closed" ELSE sess

\* __aexit__, once the body of the `async with` block is over: exc_type is the
\* exception the body raised, if any
aexit ==
    /\ pc \in {"IDLE", "COMPLETE", "FAILED"}
    /\ session' = CloseSession(session, outcome.exc)
    /\ scope' = "after"
    /\ UNCHANGED <<envVars, tasks, observations, pc, window, measurements, outages, weather_data,
                   voltage_stats, analysis, report, http, raisedIn, outcome>>
    /\ UNCHANGED simVars

\* generate_report(time_range_minutes): the window is computed
generate_report(time_range_minutes) ==
    /\ pc = "IDLE"
    /\ \E now \in NowChoices :
         window' = [start_time |-> now - time_range_minutes, end_time |-> now]
    /\ pc' = Then("IDLE")
    /\ UNCHANGED <<envVars, tasks, scope, observations, session, measurements, outages, weather_data,
                   voltage_stats, analysis, report, http, raisedIn, outcome>>
    /\ UNCHANGED simVars

\* await self.fetch_grid_data(start_time, end_time)
fetch_grid_data ==
    /\ pc = "fetch_grid_data"
    /\ \/ LET times == TickTimes(window.start_time, window.end_time)
          IN  \E draws \in [1 .. Len(times) -> VoltageDraws] :
                /\ measurements' = GridData(times, draws)
                /\ pc' = Then("fetch_grid_data")
                /\ UNCHANGED <<raisedIn, outcome>>
       \/ /\ Raise("COLLECTING", "SimulatorError")
          /\ UNCHANGED measurements
    /\ UNCHANGED <<envVars, tasks, scope, observations, session, window, outages, weather_data,
                   voltage_stats, analysis, report, http>>
    /\ UNCHANGED simVars

\* await self.fetch_outages(start_time, end_time)
fetch_outages ==
    /\ pc = "fetch_outages"
    /\ LET active == get_active_outages(df, window.end_time)
           resolved == get_resolved_outages(df, window.start_time, window.end_time)
       IN  \/ IF resolved.raised # "none"
              THEN /\ Raise("COLLECTING", resolved.raised)
                   /\ UNCHANGED outages
              ELSE /\ outages' = [active |-> active, resolved |-> resolved.value[1]]
                   /\ pc' = Then("fetch_outages")
                   /\ UNCHANGED <<raisedIn, outcome>>
           \/ /\ Raise("COLLECTING", "OutageProviderError")
              /\ UNCHANGED outages
    /\ UNCHANGED <<envVars, tasks, scope, observations, session, window, measurements, weather_data,
                   voltage_stats, analysis, report, http>>
    /\ UNCHANGED simVars

\* fetch_weather: one pass of the loop, from the await of the provider call to the append
fetch_weather ==
    /\ pc = "fetch_weather"
    /\ LET location == Locations[Len(weather_data) + 1]
       IN  \/ \E obs \in ObsChoices, noise \in TempNoise :
                LET w == WeatherSample(location, obs, noise, window.end_time)
                IN  /\ "temperature" \in DOMAIN obs => noise = 10
                    /\ observations' = Append(observations, obs)
                    /\ IF w.raised # "none"
                       THEN /\ Raise("COLLECTING", w.raised)
                            /\ UNCHANGED weather_data
                       ELSE /\ weather_data' = Collect(weather_data, w.value[1])
                            /\ pc' = IF Len(weather_data) + 1 = Len(Locations)
                                     THEN Then("fetch_weather") ELSE "fetch_weather"
                            /\ UNCHANGED <<raisedIn, outcome>>
           \/ /\ Raise("COLLECTING", "WeatherProviderError")
              /\ UNCHANGED <<weather_data, observations>>
    /\ UNCHANGED <<envVars, tasks, scope, session, window, measurements, outages,
                   voltage_stats, analysis, report, http>>
    /\ UNCHANGED simVars

\* generate_report: the voltage statistics; min() of an empty list raises
Statistics ==
    /\ pc = "STATISTICS"
    /\ IF measurements = <<>>
       THEN /\ Raise("STATISTICS", "ValueError")
            /\ UNCHANGED voltage_stats
       ELSE /\ voltage_stats' = Some(VoltageStats(Magnitudes(measurements)))
            /\ pc' = Then("STATISTICS")
            /\ UNCHANGED <<raisedIn, outcome>>
    /\ UNCHANGED <<envVars, tasks, scope, observations, session, window, measurements, outages, weather_data,
                   analysis, report, http>>
    /\ UNCHANGED simVars

\* the first record of each (station_id, type) pair of a list
RECURSIVE DedupByPair(_)
DedupByPair(list) ==
    IF list = <<>> THEN <<>>
    ELSE LET rest == DedupByPair(SubSeq(list, 1, Len(list) - 1))
             o == list[Len(list)]
         IN  IF \E i \in DOMAIN rest :
                   rest[i].station_id = o.station_id /\ rest[i].type = o.type
             THEN rest
             ELSE Append(rest, o)

\* a report assembled with the active outages deduplicated
AssembleDeduplicated(a) ==
    [time_range_start |-> window.start_time,
     time_range_end   |-> window.end_time,
     measurements     |-> measurements,
     voltage_stats    |-> voltage_stats[1],
     active_outages   |-> DedupByPair(outages.active),
     resolved_outages |-> outages.resolved,
     weather_data     |-> weather_data,
     grid_status      |-> a.status,
     alerts           |-> a.alerts,
     recommendations  |-> a.recommendations,
     exec_summary     |-> None]

\* GridReport(...)
Assemble(a) ==
    [time_range_start |-> window.start_time,
     time_range_end   |-> window.end_time,
     measurements     |-> measurements,
     voltage_stats    |-> voltage_stats[1],
     active_outages   |-> outages.active,
     resolved_outages |-> outages.resolved,
     weather_data     |-> weather_data,
     grid_status      |-> a.status,
     alerts           |-> a.alerts,
     recommendations  |-> a.recommendations,
     exec_summary     |-> None]

\* generate_report: analyze_grid_status, the report assembled, and, without
\* both credentials, the return
Classify ==
    /\ pc = "CLASSIFYING"
    /\ LET a == analyze_grid_status(measurements, outages)
       IN  IF a.raised # "none"
           THEN /\ Raise("CLASSIFYING", a.raised)
                /\ UNCHANGED <<analysis, report>>
           ELSE /\ analysis' = a.value
                /\ report' = Some(Assemble(a.value[1]))
                /\ UNCHANGED raisedIn
                /\ IF Truthy(CF_ACCOUNT_ID) /\ Truthy(CF_API_TOKEN)
                   THEN /\ pc' = Then("CLASSIFYING")
                        /\ UNCHANGED outcome
                   ELSE /\ pc' = "COMPLETE"
                        /\ outcome' = [kind |-> "returned", exc |-> "none",
                                       value |-> report']
    /\ UNCHANGED <<envVars, tasks, scope, observations, session, window, measurements, outages, weather_data,
                   voltage_stats, http>>
    /\ UNCHANGED simVars

\* report.exec_summary = await self.narrative_summary(report); return report
Narrate ==
    /\ pc = "NARRATING"
    /\ \E resp \in Responses :
         LET sent == RequestSent(CF_ACCOUNT_ID, CF_API_TOKEN, session)
             r == narrative_summary(CF_ACCOUNT_ID, CF_API_TOKEN, session, resp)
         IN  /\ ~sent => resp = TransportError
             /\ http' = [called    |-> TRUE,
                         requested |-> sent,
                         response  |-> IF sent THEN Some(resp) ELSE None]
             /\ IF r.raised # "none"
                THEN /\ Raise("NARRATING", r.raised)
                     /\ UNCHANGED report
                ELSE /\ report' = Some([report[1] EXCEPT !.exec_summary = r.value])
                     /\ pc' = Then("NARRATING")
                     /\ outcome' = [kind |-> "returned", exc |-> "none", value |-> report']
                     /\ UNCHANGED raisedIn
    /\ UNCHANGED <<envVars, tasks, scope, observations, session, window, measurements, outages, weather_data,
                   voltage_stats, analysis>>
    /\ UNCHANGED simVars

ReportNext ==
    \/ aenter
    \/ aexit
    \/ \E trm \in TimeRanges : generate_report(trm)
    \/ fetch_grid_data
    \/ fetch_outages
    \/ fetch_weather
    \/ Statistics
    \/ Classify
    \/ Narrate

\* a freshly constructed agent, holding its freshly constructed simulator
ReportInit == SimInit /\ AgentInit

SpecReport == ReportInit /\ [][ReportNext]_vars

\* ---- main(): async with GridAgent() as agent: report = await agent.generate_report() ----
\* the `async with` statement awaits __aenter__ before its body
AsyncWithEnter == scope = "before" /\ aenter

\* the body of the `async with` block: the one generate_report call
AsyncWithBody ==
    /\ scope = "inside"
    /\ \/ \E trm \in TimeRanges : generate_report(trm)
       \/ fetch_grid_data
       \/ fetch_outages
       \/ fetch_weather
       \/ Statistics
       \/ Classify
       \/ Narrate

\* the `async with` statement awaits __aexit__ when its body returns or raises
AsyncWithExit == scope = "inside" /\ aexit

ScopeNext == AsyncWithEnter \/ AsyncWithBody \/ AsyncWithExit

SpecScope == ReportInit /\ [][ScopeNext]_vars

\* ---- the narrative request while the endpoint has not answered ----
\* narrative_summary up to the post: the request is sent and the coroutine is
\* suspended until the endpoint answers or the session's timeout fires
NarrateSend ==
    /\ pc = "NARRATING"
    /\ RequestSent(CF_ACCOUNT_ID, CF_API_TOKEN, session)
    /\ http' = [called |-> TRUE, requested |-> TRUE, response |-> None]
    /\ pc' = "AWAITING"
    /\ UNCHANGED <<envVars, tasks, scope, observations, session, window, measurements, outages,
                   weather_data, voltage_stats, analysis, report, raisedIn, outcome>>
    /\ UNCHANGED simVars

\* narrative_summary resumed with `resp`, and the return of generate_report
NarrateResume(resp) ==
    LET r == narrative_summary(CF_ACCOUNT_ID, CF_API_TOKEN, session, resp)
    IN  /\ http' = [http EXCEPT !.response = Some(resp)]
        /\ IF r.raised # "none"
           THEN /\ Raise("NARRATING", r.raised)
                /\ UNCHANGED report
           ELSE /\ report' = Some([report[1] EXCEPT !.exec_summary = r.value])
                /\ pc' = Then("NARRATING")
                /\ outcome' = [kind |-> "returned", exc |-> "none", value |-> report']
                /\ UNCHANGED raisedIn
        /\ UNCHANGED <<envVars, tasks, scope, observations, session, window, measurements, outages,
                       weather_data, voltage_stats, analysis>>
        /\ UNCHANGED simVars

\* the endpoint answers, or the connection fails, while the request is pending
NarrateReceive == pc = "AWAITING" /\ \E resp \in Responses : NarrateResume(resp)

\* the timer of the session's timeout fires while the request is pending
NarrateTimeout == pc = "AWAITING" /\ ClientTimeout # None /\ NarrateResume(TimedOut)

DeliveryNext == ScopeNext \/ NarrateSend \/ NarrateReceive \/ NarrateTimeout

\* whether the endpoint ever answers is left open; the event loop runs the
\* timeout's timer callback once it is due
SpecDelivery == ReportInit /\ [][DeliveryNext]_vars /\ WF_vars(NarrateTimeout)

\* ---- two generate_report calls as tasks of one event loop ----
\* A coroutine gives way to the loop only where it suspends: at
\* `await asyncio.to_thread(...)`, once per location, and at the post of the
\* narrative request.  fetch_grid_data and fetch_outages hold no await that
\* suspends, so a call runs from its start to its first provider call in one
\* piece, and from the last provider answer to the post in one piece.
callVars == <<pc, window, measurements, outages, weather_data, observations,
              voltage_stats, analysis, report, http, raisedIn, outcome>>

Other(c) == CHOOSE d \in TaskIds : d # c

\* dicts drawn by get_voltage_measurements for a task: nominal, or bus 0 low
TaskDraws == {[b \in Buses |-> <<(IF b = 0 THEN m ELSE 1000), AngleSample>>] : m \in {940, 1000}}
\* answers of the narrative endpoint to a task
TaskResponses ==
    {HttpResponse(503, None),
     HttpResponse(200, Some(JDict([result |-> JDict([response |-> JString(<<"o", "k">>)])])))}

\* a list kept on the agent and appended to by every call, seen as the longer
\* of the lists the calls have built
WeatherDataOnAgent(ts, c) ==
    IF Len(ts[Other(c)].weather_data) > Len(ts[c].weather_data)
    THEN ts[Other(c)].weather_data
    ELSE ts[c].weather_data

\* fetch_weather: weather_data = [] is a local of the call; the list call c
\* appends to is its own
WeatherDataOf(ts, c) == ts[c].weather_data

\* generate_report from the statistics to the report, on the locals of task t;
\* with both credentials and a session the narrative request is then posted
TaskAssemble(t) ==
    IF t.measurements = <<>>
    THEN [t EXCEPT !.pc = "FAILED", !.exc = "ValueError"]
    ELSE LET a == analyze_grid_status(t.measurements, t.outages).value[1]
             rep == [time_range_start |-> t.window.start_time,
                     time_range_end   |-> t.window.end_time,
                     measurements     |-> t.measurements,
                     voltage_stats    |-> VoltageStats(Magnitudes(t.measurements)),
                     active_outages   |-> t.outages.active,
                     resolved_outages |-> t.outages.resolved,
                     weather_data     |-> t.weather_data,
                     grid_status      |-> a.status,
                     alerts           |-> a.alerts,
                     recommendations  |-> a.recommendations,
                     exec_summary     |-> None]
         IN  [t EXCEPT !.report = Some(rep),
                       !.pc = IF RequestSent(CF_ACCOUNT_ID, CF_API_TOKEN, session)
                              THEN "AWAIT_POST" ELSE "COMPLETE"]

\* task c from the call to its first `await asyncio.to_thread(...)`
TaskStart(c) ==
    /\ scope = "inside"
    /\ tasks[c].pc = "IDLE"
    /\ \E now \in NowChoices :
         LET w == [start_time |-> now - TaskRange[c], end_time |-> now]
             times == TickTimes(w.start_time, w.end_time)
         IN  \E draws \in [1 .. Len(times) -> TaskDraws] :
               LET active == get_active_outages(df, w.end_time)
                   resolved == get_resolved_outages(df, w.start_time, w.end_time)
                   t == [tasks[c] EXCEPT !.peer = tasks[Other(c)].pc,
                                         !.window = w,
                                         !.draws = draws,
                                         !.measurements = GridData(times, draws)]
               IN  tasks' = [tasks EXCEPT ![c] =
                       IF resolved.raised # "none"
                       THEN [t EXCEPT !.pc = "FAILED", !.exc = resolved.raised]
                       ELSE [t EXCEPT !.pc = "AWAIT_OBS",
                                      !.outages = [active   |-> active,
                                                   resolved |-> resolved.value[1]]]]
    /\ UNCHANGED <<envVars, scope, session, callVars>>
    /\ UNCHANGED simVars

\* task c resumed with the provider's answer for its next location: the
\* sample is appended, and after the last location the call runs on to the
\* narrative post or to its return
TaskObserved(c) ==
    /\ tasks[c].pc = "AWAIT_OBS"
    /\ \E obs \in ObsChoices, noise \in TempNoise :
         LET location == Locations[tasks[c].location + 1]
             w == WeatherSample(location, obs, noise, tasks[c].window.end_time)
             t == [tasks[c] EXCEPT !.peer = tasks[Other(c)].pc,
                                   !.obs = Append(@, obs),
                                   !.noise = Append(@, noise),
                                   !.location = @ + 1]
         IN  /\ "temperature" \in DOMAIN obs => noise = 10
             /\ tasks' = [tasks EXCEPT ![c] =
                    IF w.raised # "none"
                    THEN [t EXCEPT !.pc = "FAILED", !.exc = w.raised]
                    ELSE LET tw == [t EXCEPT !.weather_data =
                                        Collect(WeatherDataOf(tasks, c), w.value[1])]
                         IN  IF t.location < Len(Locations) THEN tw ELSE TaskAssemble(tw)]
    /\ UNCHANGED <<envVars, scope, session, callVars>>
    /\ UNCHANGED simVars

\* task c resumed with the endpoint's answer: exec_summary is set and the
\* report returned
TaskAnswered(c) ==
    /\ tasks[c].pc = "AWAIT_POST"
    /\ \E resp \in TaskResponses :
         LET r == narrative_summary(CF_ACCOUNT_ID, CF_API_TOKEN, session, resp)
         IN  tasks' = [tasks EXCEPT ![c] =
                 [@ EXCEPT !.peer = tasks[Other(c)].pc,
                           !.pc = IF r.raised = "none" THEN "COMPLETE" ELSE "FAILED",
                           !.exc = r.raised,
                           !.report = Some([@[1] EXCEPT !.exec_summary = r.value])]]
    /\ UNCHANGED <<envVars, scope, session, callVars>>
    /\ UNCHANGED simVars

\* the block is left once every call has returned or raised
GatherExit == (\A c \in TaskIds : tasks[c].pc \in {"COMPLETE", "FAILED"}) /\ AsyncWithExit

GatherNext ==
    \/ AsyncWithEnter
    \/ \E c \in TaskIds : TaskStart(c)
    \/ \E c \in TaskIds : TaskObserved(c)
    \/ \E c \in TaskIds : TaskAnswered(c)
    \/ GatherExit

SpecGather == ReportInit /\ [][GatherNext]_vars

\* a direct call narrative_summary(report), on a report the caller holds: the
\* payload built from it does not bear on what the call returns
NarrativeCall ==
    /\ pc = "IDLE"
    /\ \E resp \in Responses :
         LET sent == RequestSent(CF_ACCOUNT_ID, CF_API_TOKEN, session)
             r == narrative_summary(CF_ACCOUNT_ID, CF_API_TOKEN, session, resp)
         IN  /\ ~sent => resp = TransportError
             /\ http' = [called    |-> TRUE,
                         requested |-> sent,
                         response  |-> IF sent THEN Some(resp) ELSE None]
             /\ pc' = "SUMMARIZED"
             /\ raisedIn' = IF r.raised # "none" THEN "NARRATING" ELSE raisedIn
             /\ outcome' = IF r.raised # "none"
                           THEN [kind |-> "raised", exc |-> r.raised, value |-> None]
                           ELSE [kind |-> "returned", exc |-> "none", value |-> r.value]
    /\ UNCHANGED <<envVars, tasks, scope, observations, session, window, measurements, outages, weather_data,
                   voltage_stats, analysis, report>>
    /\ UNCHANGED simVars

\* generate_report, or narrative_summary called on its own
NarrativeNext == ReportNext \/ NarrativeCall

SpecNarrative == ReportInit /\ [][NarrativeNext]_vars

\* ---- the fetch coroutines called on their own ----
\* a caller awaits one of the fetch coroutines with a window of its choosing
Call(p, start_time, end_time) ==
    /\ pc = "IDLE"
    /\ window' = [start_time |-> start_time, end_time |-> end_time]
    /\ pc' = p
    /\ UNCHANGED <<envVars, tasks, scope, observations, session, measurements, outages, weather_data,
                   voltage_stats, analysis, report, http, raisedIn, outcome>>
    /\ UNCHANGED simVars

\* windows passed to fetch_grid_data, in minutes: on and off the 5-minute
\* grid, empty, and with the end before the start
GridStarts == {0, 3}
GridEnds == {0, 4, 5, 9, 10}

\* rows for fetch_outages called on its own: resolved at the very end of a
\* window, marked resolved with an empty resolved_time, and unresolved with a
\* resolved_time filled in
RowR3 == [station_id |-> "STN3", type |-> "line", timestamp |-> 12,
          resolved |-> TRUE, resolved_time |-> Some(20)]
RowN1 == [station_id |-> "STN3", type |-> "transformer", timestamp |-> 12,
          resolved |-> TRUE, resolved_time |-> None]
RowX1 == [station_id |-> "STN4", type |-> "line", timestamp |-> 14,
          resolved |-> FALSE, resolved_time |-> Some(16)]
StoreChoices ==
    DfChoices \cup { <<RowN1, RowA1, RowF1, RowB1>>,
                     <<RowR1, RowR3, RowA1, RowB1>>,
                     <<RowX1, RowA2>> }
\* windows passed to fetch_outages, in minutes
OutageStarts == {5, 10, 15, 16}
OutageEnds == {14, 15, 20, 21}

OutagesInit == SimInit /\ \E rows \in StoreChoices : AgentStart("None", "None", rows)

OutagesNext ==
    \/ \E start_time \in OutageStarts, end_time \in OutageEnds :
           Call("fetch_outages", start_time, end_time)
    \/ fetch_outages

SpecOutages == OutagesInit /\ [][OutagesNext]_vars

GridNext ==
    \/ \E start_time \in GridStarts, end_time \in GridEnds :
           Call("fetch_grid_data", start_time, end_time)
    \/ fetch_grid_data

\* the simulator as constructed, next to an agent that is not asked for a report
IdleInit == SimInit /\ AgentIdle

\* ---- analyze_grid_status called on its own ----
\* magnitudes on, next to and away from every threshold
BoundaryMags == {940, 950, 960, 970, 1000, 1030, 1040, 1050, 1060}
\* active outage lists passed in
AnalyzeRows == {RowA1, RowA2, RowB1, RowF1}

SeqsUpTo(S, n) == UNION {[1 .. k -> S] : k \in 0 .. n}

MeasurementOf(i, mag) ==
    [timestamp |-> 0, voltage_magnitude |-> mag, voltage_angle |-> AngleSample,
     bus_id |-> (i - 1) % bus_count]

\* a direct call analyze_grid_status(measurements, outages)
AnalyzeCall ==
    /\ pc = "IDLE"
    /\ \E mags \in SeqsUpTo(BoundaryMags, MaxSeries), active \in SeqsUpTo(AnalyzeRows, MaxOutages) :
         LET ms == [i \in 1 .. Len(mags) |-> MeasurementOf(i, mags[i])]
             outs == [active |-> active, resolved |-> <<>>]
             a == analyze_grid_status(ms, outs)
         IN  /\ measurements' = ms
             /\ outages' = outs
             /\ analysis' = a.value
             /\ pc' = "ANALYZED"
             /\ outcome' = IF a.raised # "none"
                           THEN [kind |-> "raised", exc |-> a.raised, value |-> None]
                           ELSE [kind |-> "returned", exc |-> "none", value |-> None]
    /\ UNCHANGED <<envVars, tasks, scope, observations, session, window, weather_data, voltage_stats, report,
                   http, raisedIn>>
    /\ UNCHANGED simVars

SpecGrid == IdleInit /\ [][GridNext]_vars

SpecAnalyze == IdleInit /\ [][AnalyzeCall]_vars

(***************************************************************************)
(* Specifications of the simulator.                                        *)
(***************************************************************************)
\* the simulator ticking on its own: update_state calls only
TickNext == update_state(MagNoiseVecs, AngNoiseVecs)

SpecTick == IdleInit /\ [][TickNext]_vars

\* a caller injecting faults between ticks (no angle noise drawn)
FaultNext ==
    \/ \E bus_id \in BusArgs : inject_fault(bus_id)
    \/ update_state(MagNoiseVecs, ZeroNoiseVecs)

SpecFault == IdleInit /\ [][FaultNext]_vars

\* a caller reading the state between injected faults and noiseless ticks, and
\* writing to the arrays it was handed
MeasureNext ==
    \/ \E bus_id \in Buses : inject_fault(bus_id)
    \/ current_time < MaxReadTicks * time_step /\ update_state(ZeroNoiseVecs, ZeroNoiseVecs)
    \/ get_measurements_call
    \/ \E field \in {"voltage_magnitudes", "voltage_angles"}, b \in Buses :
           MutateReturned(field, b)

SpecMeasure == IdleInit /\ [][MeasureNext]_vars

\* windows passed to fetch_grid_data between simulator calls: one tick, two ticks
SamplingEnds == {0, 5}

\* the memoryless sampling path next to the stateful one: fetch_grid_data,
\* called on its own or by generate_report, between injected faults and ticks
SamplingNext ==
    \/ \E bus_id \in Buses : inject_fault(bus_id)
    \/ current_time < MaxReadTicks * time_step /\ update_state(ZeroNoiseVecs, ZeroNoiseVecs)
    \/ \E end_time \in SamplingEnds : Call("fetch_grid_data", 0, end_time)
    \/ \E trm \in TimeRanges : generate_report(trm)
    \/ fetch_grid_data

SpecSampling == IdleInit /\ [][SamplingNext]_vars

(***************************************************************************)
(* Properties of the simulator.                                            *)
(***************************************************************************)

\* how many entries of the list of bus ids `ids` are `b`
Reported(ids, b) == Cardinality({i \in DOMAIN ids : ids[i] = b})

\* C1: after every update_state call, fault-injecting ticks included, every
\* bus's magnitude lies in [0.9, 1.1]; every angle has moved by exactly the
\* noise drawn for it, with no clamp applied.
C1_MagnitudesClamped ==
    [][simOp'.op = "update_state" =>
          /\ \A b \in Buses : /\ ClipLow <= voltage_magnitudes'[b]
                               /\ voltage_magnitudes'[b] <= ClipHigh
          /\ \A b \in Buses : voltage_angles'[b] - voltage_angles[b] \in AngNoise
      ]_vars

\* C1 witness: a tick injected a fault at some bus, whose halved magnitude was
\* raised to the lower limit, while another bus sits at the upper limit and an
\* angle has drifted.
C1_Witness ==
    /\ simOp.op = "update_state"
    /\ \E i \in DOMAIN active_faults :
          /\ active_faults[i][2] = current_time + fault_duration
          /\ voltage_magnitudes[active_faults[i][1]] = ClipLow
    /\ \E b \in Buses : voltage_magnitudes[b] = ClipHigh
    /\ \E b \in Buses : voltage_angles[b] # InitAngles[b]

\* C2: fault lifecycle on the virtual clock.  After any call, every entry
\* still held (and so reported by get_measurements) is inside its window
\* [t, t + fault_duration), and no entry whose end_time is still ahead of the
\* clock has been dropped from the reported list.
C2_FaultLifecycle ==
    [][/\ \A i \in DOMAIN active_faults' :
            /\ active_faults'[i][2] - fault_duration <= current_time'
            /\ current_time' < active_faults'[i][2]
            /\ get_measurements'.active_faults[i] = active_faults'[i][1]
       /\ Len(get_measurements'.active_faults) = Len(active_faults')
       /\ \A b \in Buses :
            Reported(get_measurements'.active_faults, b) >=
                Cardinality({i \in DOMAIN active_faults :
                                /\ active_faults[i][1] = b
                                /\ active_faults[i][2] > current_time'})
      ]_vars

\* C2 witness: after a tick, a fault injected four ticks ago is in its last
\* tick before expiry and still reported, next to a younger fault.
C2_Witness ==
    /\ simOp.op = "update_state"
    /\ Len(active_faults) = 2
    /\ active_faults[1][2] = current_time + time_step
    /\ active_faults[2][2] > active_faults[1][2]
    /\ get_measurements.active_faults = <<active_faults[1][1], active_faults[2][1]>>

\* C3: inject_fault(b) with b in range halves bus b's magnitude at once,
\* appends exactly one entry (b, current_time + fault_duration), and leaves
\* every other magnitude, all angles and current_time unchanged.
C3_InjectHalves ==
    [][(simOp'.op = "inject_fault" /\ ValidBus(simOp'.bus_id)) =>
          LET b == simOp'.bus_id
          IN  /\ 2 * voltage_magnitudes'[b] = voltage_magnitudes[b]
              /\ active_faults' = active_faults \o <<(<<b, current_time + fault_duration>>)>>
              /\ \A o \in Buses \ {b} : voltage_magnitudes'[o] = voltage_magnitudes[o]
              /\ voltage_angles' = voltage_angles
              /\ current_time' = current_time
      ]_vars

\* C3 witness: a second fault injected at a bus already halved once, while the
\* other bus keeps a different, clamped magnitude.
C3_Witness ==
    /\ simOp.op = "inject_fault"
    /\ ValidBus(simOp.bus_id)
    /\ Len(active_faults) = 2
    /\ active_faults[1][1] = simOp.bus_id
    /\ active_faults[2] = <<simOp.bus_id, current_time + fault_duration>>
    /\ current_time > 0
    /\ \E o \in Buses : o # simOp.bus_id /\ voltage_magnitudes[o] = ClipHigh

\* C4 (as claimed): inject_fault with a bus id outside [0, bus_count) signals
\* InvalidBusId and leaves magnitudes, angles, active_faults and current_time
\* unchanged.
C4_InvalidBusSignalled ==
    [][(simOp'.op = "inject_fault" /\ ~ValidBus(simOp'.bus_id)) =>
          /\ simOp'.signal = "InvalidBusId"
          /\ UNCHANGED <<voltage_magnitudes, voltage_angles, active_faults, current_time>>
      ]_vars

(***************************************************************************)
(* Properties of analyze_grid_status.                                      *)
(***************************************************************************)

\* the magnitudes of the series passed to analyze_grid_status
SeriesMags == {measurements[i].voltage_magnitude : i \in DOMAIN measurements}
SeriesLow == CHOOSE m \in SeriesMags : \A x \in SeriesMags : m <= x
SeriesHigh == CHOOSE m \in SeriesMags : \A x \in SeriesMags : m >= x

\* positions of the active outages that are the first of their (station_id, type)
FirstOfPair ==
    {i \in DOMAIN outages.active :
        \A j \in 1 .. (i - 1) :
            \/ outages.active[j].station_id # outages.active[i].station_id
            \/ outages.active[j].type # outages.active[i].type}

IsOutageAlert(a) == \E k \in 0 .. Len(outages.active) : a = ToString(k) \o " active outages"

\* C5: the status is critical iff min < critical_low or max > critical_high over
\* the whole series, otherwise degraded iff min < degraded_low or
\* max > degraded_high, otherwise normal; a min or max equal to a threshold
\* does not trigger it.
C5_Classification ==
    analysis # None =>
        LET st == analysis[1].status
            crit == SeriesLow < VOLT_LIMIT_CRITICAL_LOW \/ SeriesHigh > VOLT_LIMIT_CRITICAL_HIGH
            degr == SeriesLow < VOLT_LIMIT_DEGRADED_LOW \/ SeriesHigh > VOLT_LIMIT_DEGRADED_HIGH
        IN  /\ st \in {"critical", "degraded", "normal"}
            /\ st = "critical" <=> crit
            /\ st = "degraded" <=> (~crit /\ degr)
            /\ st = "normal" <=> (~crit /\ ~degr)
            /\ (SeriesLow = VOLT_LIMIT_CRITICAL_LOW /\ SeriesHigh <= VOLT_LIMIT_CRITICAL_HIGH)
                   => st # "critical"
            /\ (SeriesLow = VOLT_LIMIT_DEGRADED_LOW /\ SeriesHigh <= VOLT_LIMIT_DEGRADED_HIGH)
                   => st = "normal"

\* C5 witness: a series whose min and max sit exactly on the critical
\* thresholds is classified degraded, not critical.
C5_Witness ==
    /\ pc = "ANALYZED"
    /\ analysis # None
    /\ SeriesLow = VOLT_LIMIT_CRITICAL_LOW
    /\ SeriesHigh = VOLT_LIMIT_CRITICAL_HIGH
    /\ analysis[1].status = "degraded"

\* C6: num_active is the number of distinct (station_id, type) pairs among the
\* active outages, not the number of records, and the "<num_active> active
\* outages" alert with its recommendation is present iff num_active > 0.
C6_DistinctOutageCount ==
    analysis # None =>
        LET n == Cardinality(FirstOfPair)
            alerts == analysis[1].alerts
            recs == analysis[1].recommendations
        IN  /\ n > 0 =>
                /\ alerts # <<>>
                /\ alerts[1] = ToString(n) \o " active outages"
                /\ recs[1] = "Prioritise restoration for affected substations"
                /\ Cardinality({i \in DOMAIN alerts : IsOutageAlert(alerts[i])}) = 1
            /\ n = 0 =>
                /\ \A i \in DOMAIN alerts : ~IsOutageAlert(alerts[i])
                /\ \A i \in DOMAIN recs :
                       recs[i] # "Prioritise restoration for affected substations"

\* C6 witness: two records of (STN1, line) and one of (STN2, transformer) give
\* the alert "2 active outages".
C6_Witness ==
    /\ pc = "ANALYZED"
    /\ analysis # None
    /\ outages.active = <<RowA1, RowA2, RowB1>>
    /\ analysis[1].alerts[1] = "2 active outages"

\* C7: alerts is the outage alert (if any active outage) followed by the
\* status alert (critical, degraded, or none when normal), recommendations
\* holds the matching text at each position, and the critical and degraded
\* alerts never appear together.
C7_AlertOrder ==
    analysis # None =>
        LET st == analysis[1].status
            alerts == analysis[1].alerts
            recs == analysis[1].recommendations
            k == IF outages.active # <<>> THEN 1 ELSE 0
        IN  /\ Len(alerts) = k + (IF st = "normal" THEN 0 ELSE 1)
            /\ Len(recs) = Len(alerts)
            /\ k = 1 =>
                /\ IsOutageAlert(alerts[1])
                /\ recs[1] = "Prioritise restoration for affected substations"
            /\ st = "critical" =>
                /\ alerts[k + 1] = "Critical voltage levels detected"
                /\ recs[k + 1] = "Immediate action required to stabilise voltage levels"
            /\ st = "degraded" =>
                /\ alerts[k + 1] = "Voltage levels outside normal range"
                /\ recs[k + 1] =
                       "Monitor voltage levels and prepare for potential corrective action"
            /\ ~(/\ \E i \in DOMAIN alerts : alerts[i] = "Critical voltage levels detected"
                 /\ \E i \in DOMAIN alerts : alerts[i] = "Voltage levels outside normal range")

\* C7 witness: active outages and a critical series give the two alerts,
\* outage first.
C7_Witness ==
    /\ pc = "ANALYZED"
    /\ analysis # None
    /\ outages.active # <<>>
    /\ analysis[1].status = "critical"
    /\ Len(analysis[1].alerts) = 2
    /\ analysis[1].alerts[2] = "Critical voltage levels detected"

(***************************************************************************)
(* Properties of generate_report and narrative_summary.                    *)
(***************************************************************************)

\* the caller has been returned a report with status, statistics, alerts and
\* recommendations filled in from the data of this call
Populated ==
    /\ outcome.kind = "returned"
    /\ outcome.value # None
    /\ outcome.value[1].grid_status \in {"normal", "degraded", "critical"}
    /\ outcome.value[1].measurements = measurements
    /\ measurements # <<>>
    /\ voltage_stats # None
    /\ outcome.value[1].voltage_stats = voltage_stats[1]
    /\ analysis # None
    /\ outcome.value[1].grid_status = analysis[1].status
    /\ outcome.value[1].alerts = analysis[1].alerts
    /\ outcome.value[1].recommendations = analysis[1].recommendations
    /\ Len(outcome.value[1].alerts) = Len(outcome.value[1].recommendations)

\* C8: an exception raised while collecting (grid, outage or weather fetch),
\* in the statistics or in the classification reaches the caller of
\* generate_report, which then gets no report at all.
C8_EarlyFailurePropagates ==
    /\ raisedIn \in {"COLLECTING", "STATISTICS", "CLASSIFYING"} =>
          /\ pc = "FAILED"
          /\ outcome.kind = "raised"
          /\ outcome.exc # "none"
          /\ outcome.value = None
    /\ outcome.kind = "raised" => outcome.value = None

\* C8 witness: the provider's answer for the second location lacks a key, after
\* the grid data, the outages and the first weather sample were collected: the
\* KeyError reaches the caller.
C8_Witness ==
    /\ raisedIn = "COLLECTING"
    /\ outcome = [kind |-> "raised", exc |-> "KeyError", value |-> None]
    /\ measurements # <<>>
    /\ outages.active # <<>>
    /\ Len(weather_data) = 1

\* C9: once collecting, statistics and classification have succeeded, the
\* call ends COMPLETE with a populated report whatever the narrative step
\* meets; the narrative step never makes generate_report raise, and changes
\* nothing of the report but the narrative field.
C9_NarrativeFailSoft ==
    [][/\ pc = "NARRATING" =>
            /\ pc' = "COMPLETE"
            /\ Populated'
            /\ [outcome'.value[1] EXCEPT !.exec_summary = None] = report[1]
       /\ pc' = "COMPLETE" => Populated'
       /\ raisedIn' # "NARRATING"
       /\ (pc = "CLASSIFYING" /\ raisedIn' = "none") => pc' \in {"NARRATING", "COMPLETE"}
      ]_vars

\* C9 witness: the endpoint answers 503 and the report is returned, complete,
\* without a narrative.
C9_Witness ==
    /\ pc = "COMPLETE"
    /\ http.requested
    /\ http.response = Some(HttpResponse(503, None))
    /\ Populated
    /\ outcome.value[1].exec_summary = None

\* the response is a 200 whose body has a string at result.response
ExpectedShape(resp) ==
    /\ resp.kind = "response"
    /\ resp.status = 200
    /\ resp.json # None
    /\ resp.json[1].type = "dict"
    /\ "result" \in DOMAIN resp.json[1].items
    /\ resp.json[1].items.result.type = "dict"
    /\ "response" \in DOMAIN resp.json[1].items.result.items
    /\ resp.json[1].items.result.items.response.type = "string"

\* C10: narrative_summary raises nothing past its boundary, and returns an
\* absent result unless a request was sent and answered 200 with the expected
\* shape: so for every other status, every malformed body, every transport or
\* parse exception and an unavailable session.
C10_NarrativeNeverRaises ==
    http.called =>
        /\ raisedIn # "NARRATING"
        /\ outcome.kind = "returned"
        /\ outcome.value # None
        /\ ~(http.requested /\ ExpectedShape(http.response[1])) =>
               outcome.value[1].exec_summary = None

\* C10 witness: a 200 whose result.response is null (strip() of None raises
\* inside the try block) gives an absent narrative in a returned report.
C10_Witness ==
    /\ http.called
    /\ http.requested
    /\ http.response =
           Some(HttpResponse(200, Some(JDict([result |-> JDict([response |-> JNull])]))))
    /\ outcome.kind = "returned"
    /\ outcome.value[1].exec_summary = None

\* a credential that os.getenv left unset or empty
CredentialMissing ==
    \/ CF_ACCOUNT_ID \in {"None", ""}
    \/ CF_API_TOKEN \in {"None", ""}

\* C11: with either credential missing no request is ever issued:
\* narrative_summary returns an absent result without raising, and
\* generate_report never enters the narrative step and returns its report
\* with an absent narrative.
C11_NoRequestWithoutCredentials ==
    CredentialMissing =>
        /\ ~http.requested
        /\ http.response = None
        /\ pc # "NARRATING"
        /\ raisedIn # "NARRATING"
        /\ pc = "COMPLETE" =>
               /\ ~http.called
               /\ outcome.kind = "returned"
               /\ outcome.value # None
               /\ outcome.value[1].exec_summary = None
        /\ pc = "SUMMARIZED" =>
               outcome = [kind |-> "returned", exc |-> "none", value |-> None]

\* C11 witness: narrative_summary called with an account id and an empty
\* token, on an open session: absent result, nothing sent.
C11_Witness ==
    /\ pc = "SUMMARIZED"
    /\ CF_ACCOUNT_ID = "set"
    /\ CF_API_TOKEN = ""
    /\ session = "open"
    /\ http.called
    /\ ~http.requested
    /\ outcome = [kind |-> "returned", exc |-> "none", value |-> None]

\* the narrative handed back by the call that has ended, if any
NarrativeResult ==
    IF pc = "SUMMARIZED" THEN outcome.value
    ELSE IF pc = "COMPLETE" /\ outcome.value # None THEN outcome.value[1].exec_summary
    ELSE None

Blank(c) == c \in {" ", "\n", "\t"}

\* r is text without the whitespace before its first and after its last
\* non-blank character
Trimmed(text, r) ==
    \E i \in 1 .. Len(text), j \in 1 .. Len(text) :
        /\ i <= j
        /\ r = SubSeq(text, i, j)
        /\ ~Blank(text[i])
        /\ ~Blank(text[j])
        /\ \A k \in 1 .. (i - 1) : Blank(text[k])
        /\ \A k \in (j + 1) .. Len(text) : Blank(text[k])

\* C12: on a 200 response of the expected shape narrative_summary returns
\* the text without its surrounding whitespace, or the fixed placeholder when
\* nothing is left of it; a narrative that is present is never the empty
\* string.
C12_TrimmedOrPlaceholder ==
    /\ NarrativeResult # None => NarrativeResult[1] # <<>>
    /\ (/\ pc \in {"COMPLETE", "SUMMARIZED"}
        /\ http.requested
        /\ ExpectedShape(http.response[1])) =>
           LET text == http.response[1].json[1].items.result.items.response.chars
           IN  /\ NarrativeResult # None
               /\ IF \A k \in 1 .. Len(text) : Blank(text[k])
                  THEN NarrativeResult[1] = <<"(LLM produced empty summary)">>
                  ELSE Trimmed(text, NarrativeResult[1])

\* C12 witness: the text " ok \n" comes back as "ok" in the report.
C12_Witness ==
    /\ pc = "COMPLETE"
    /\ http.requested
    /\ ExpectedShape(http.response[1])
    /\ http.response[1].json[1].items.result.items.response.chars =
           <<" ", "o", "k", " ", "\n">>
    /\ outcome.value[1].exec_summary = Some(<<"o", "k">>)

\* the moves of generate_report from one position to the next; an exception
\* ends it from any position
StageMoves ==
    { <<"IDLE", "fetch_grid_data">>,
      <<"fetch_grid_data", "fetch_outages">>,
      <<"fetch_outages", "fetch_weather">>,
      <<"fetch_weather", "STATISTICS">>,
      <<"STATISTICS", "CLASSIFYING">>,
      <<"CLASSIFYING", "NARRATING">>,
      <<"CLASSIFYING", "COMPLETE">>,
      <<"NARRATING", "COMPLETE">> }
    \cup { <<p, "FAILED">> :
              p \in {"fetch_grid_data", "fetch_outages", "fetch_weather",
                     "STATISTICS", "CLASSIFYING", "NARRATING"} }

\* C13: generate_report moves through collecting, statistics, classification,
\* (narrative), complete in that order only: the statistics are computed once
\* the three fetches are over, the classification once the statistics are
\* there, and the narrative is asked for once the report is assembled from
\* all of them.
C13_StageOrder ==
    [][/\ pc' # pc => <<pc, pc'>> \in StageMoves
       /\ measurements' # measurements => pc = "fetch_grid_data"
       /\ outages' # outages => pc = "fetch_outages"
       /\ weather_data' # weather_data => pc = "fetch_weather"
       /\ pc' = "STATISTICS" =>
              /\ pc = "fetch_weather"
              /\ Len(weather_data') = Len(Locations)
              /\ voltage_stats' = None
              /\ analysis' = None
       /\ voltage_stats' # voltage_stats =>
              /\ pc = "STATISTICS"
              /\ Len(weather_data) = Len(Locations)
              /\ UNCHANGED <<measurements, outages, weather_data>>
       /\ analysis' # analysis =>
              /\ pc = "CLASSIFYING"
              /\ voltage_stats # None
              /\ UNCHANGED <<measurements, outages, weather_data, voltage_stats>>
       /\ http' # http =>
              /\ pc = "NARRATING"
              /\ analysis # None
              /\ voltage_stats # None
              /\ report # None
              /\ report[1].measurements = measurements
              /\ report[1].active_outages = outages.active
              /\ report[1].weather_data = weather_data
              /\ report[1].voltage_stats = voltage_stats[1]
              /\ report[1].grid_status = analysis[1].status
              /\ UNCHANGED <<measurements, outages, weather_data, voltage_stats, analysis>>
      ]_vars

\* C13 witness: a call that went through every stage, the narrative step
\* included, and came back with a narrative.
C13_Witness ==
    /\ pc = "COMPLETE"
    /\ http.requested
    /\ Len(measurements) = 2 * bus_count
    /\ outages.active # <<>>
    /\ Len(weather_data) = Len(Locations)
    /\ voltage_stats # None
    /\ analysis # None
    /\ outcome.kind = "returned"
    /\ outcome.value[1].exec_summary # None

\* C14: for start <= end, fetch_grid_data returns bus_count measurements for
\* each of floor((end - start) / 5 min) + 1 ticks, both ends of the window
\* included, tick after tick and bus after bus within a tick, the k-th tick
\* stamped start + 5k minutes, each tick holding the answer of one
\* get_voltage_measurements call.
C14_TickMajorSeries ==
    (/\ pc = "fetch_outages"
     /\ window.start_time <= window.end_time) =>
        LET ticks == ((window.end_time - window.start_time) \div 5) + 1
        IN  /\ Len(measurements) = ticks * bus_count
            /\ \A i \in 1 .. Len(measurements) :
                   /\ measurements[i].timestamp = window.start_time + 5 * ((i - 1) \div bus_count)
                   /\ measurements[i].bus_id = (i - 1) % bus_count
            /\ \A k \in 0 .. (ticks - 1) :
                   \E d \in VoltageDraws :
                      \A b \in Buses :
                         /\ measurements[k * bus_count + b + 1].voltage_magnitude = d[b][1]
                         /\ measurements[k * bus_count + b + 1].voltage_angle = d[b][2]

\* C14 witness: a 5-minute window gives two ticks, stamped with its two ends.
C14_Witness ==
    /\ pc = "fetch_outages"
    /\ window = [start_time |-> 0, end_time |-> 5]
    /\ Len(measurements) = 2 * bus_count
    /\ measurements[1].timestamp = 0
    /\ measurements[bus_count + 1].timestamp = 5
    /\ measurements[bus_count + 1].bus_id = 0

\* the n-th smallest element of a set of positions
Nth(S, n) == CHOOSE i \in S : Cardinality({j \in S : j < i}) = n - 1

\* list is the rows of the store at the positions of S, in store order
RowsAt(list, S) ==
    /\ Len(list) = Cardinality(S)
    /\ \A n \in 1 .. Len(list) : list[n] = df[Nth(S, n)]

\* C15: the active list of fetch_outages(start, end) is exactly the stored
\* outages with timestamp <= end that are not resolved; start plays no role:
\* an unresolved outage begun before start is in, one beginning after end is
\* out.
C15_ActiveByEndOnly ==
    pc = "fetch_weather" =>
        /\ RowsAt(outages.active,
                  {i \in DOMAIN df : df[i].timestamp <= window.end_time /\ ~df[i].resolved})
        /\ \A i \in DOMAIN df :
               (~df[i].resolved /\ df[i].timestamp < window.start_time
                               /\ df[i].timestamp <= window.end_time) =>
                   \E n \in DOMAIN outages.active : outages.active[n] = df[i]
        /\ \A n \in DOMAIN outages.active :
               outages.active[n].timestamp <= window.end_time

\* C15 witness: an unresolved outage begun at minute 10 is active for the
\* window [15, 20], next to one beginning exactly at minute 20.
C15_Witness ==
    /\ pc = "fetch_weather"
    /\ window = [start_time |-> 15, end_time |-> 20]
    /\ \E n \in DOMAIN outages.active : outages.active[n] = RowA1
    /\ \E n \in DOMAIN outages.active : outages.active[n] = RowB1

\* C16: the resolved list of fetch_outages(start, end) is exactly the stored
\* outages that are resolved with start <= resolved_time <= end, both ends
\* included; no record is in both the active and the resolved list.  Stated
\* of every fetch_outages call the outage store answers.
C16_ResolvedInWindow ==
    [][(pc = "fetch_outages" /\ outcome'.exc # "OutageProviderError") =>
          /\ pc' = "fetch_weather"
          /\ RowsAt(outages'.resolved,
                    {i \in DOMAIN df :
                        /\ df[i].resolved
                        /\ df[i].resolved_time # <<>>
                        /\ window.start_time <= df[i].resolved_time[1]
                        /\ df[i].resolved_time[1] <= window.end_time})
          /\ \A a \in DOMAIN outages'.active, r \in DOMAIN outages'.resolved :
                 outages'.active[a] # outages'.resolved[r]
      ]_vars

\* C17: the active and resolved lists of the provider reach the report
\* untouched: records sharing a (station_id, type) pair all stay in
\* report.active_outages, in provider order; only the count in the alert is
\* taken over distinct pairs.
C17_OutagesPassedThrough ==
    /\ pc \in {"fetch_weather", "STATISTICS", "CLASSIFYING", "NARRATING", "COMPLETE"} =>
           RowsAt(outages.active,
                  {i \in DOMAIN df : df[i].timestamp <= window.end_time /\ ~df[i].resolved})
    /\ report # None =>
           /\ report[1].active_outages = outages.active
           /\ report[1].resolved_outages = outages.resolved
    /\ (pc = "COMPLETE" /\ outcome.value # None) =>
           /\ outcome.value[1].active_outages = outages.active
           /\ outcome.value[1].resolved_outages = outages.resolved
           /\ outcome.value[1].active_outages # <<>> =>
                  /\ outcome.value[1].alerts # <<>>
                  /\ outcome.value[1].alerts[1] = ToString(Cardinality(FirstOfPair)) \o " active outages"

\* C17 witness: the two (STN1, line) records are both in the returned report,
\* whose alert counts two active outages for three records.
C17_Witness ==
    /\ pc = "COMPLETE"
    /\ outcome.value # None
    /\ outcome.value[1].active_outages = <<RowA1, RowA2, RowB1>>
    /\ outcome.value[1].alerts[1] = "2 active outages"

\* C18: fetch_weather returns one sample per requested location, the i-th
\* sample for the i-th location and built from the i-th answer of the
\* provider: one provider call is in flight at a time, each awaited before
\* the next location is taken.
C18_WeatherInRequestOrder ==
    /\ Len(weather_data) <= Len(Locations)
    /\ Len(weather_data) <= Len(observations)
    /\ \A i \in DOMAIN weather_data :
           /\ weather_data[i].location = Locations[i]
           /\ weather_data[i].humidity = observations[i].humidity
           /\ weather_data[i].conditions = observations[i].conditions
    /\ pc \in {"STATISTICS", "CLASSIFYING", "NARRATING", "COMPLETE"} =>
           Len(weather_data) = Len(Locations)
    /\ (pc = "COMPLETE" /\ outcome.value # None) =>
           outcome.value[1].weather_data = weather_data

\* C18 witness: two different answers of the provider, each in the sample of
\* its own location.
C18_Witness ==
    /\ pc = "STATISTICS"
    /\ weather_data[1].location = "Madrid"
    /\ weather_data[2].location = "Barcelona"
    /\ observations = <<NoTempObs, MockObs>>
    /\ weather_data[1].humidity = 700
    /\ weather_data[2].humidity = 650

\* C19: an answer of the provider without a temperature does not make
\* fetch_weather fail: the temperature is synthesized around 21.0 for
\* "Madrid" and 23.0 for any other location (within one sigma in the draws
\* explored); a temperature that is there is used unchanged; humidity,
\* wind_speed, precipitation and conditions are copied from the answer.
C19_TemperatureSynthesized ==
    \A i \in DOMAIN observations :
        {"humidity", "wind_speed", "precipitation", "conditions"} \subseteq DOMAIN observations[i] =>
            /\ i \in DOMAIN weather_data
            /\ LET obs == observations[i]
                   w == weather_data[i]
                   base == IF Locations[i] = "Madrid" THEN 210 ELSE 230
               IN  /\ w.humidity = obs.humidity
                   /\ w.wind_speed = obs.wind_speed
                   /\ w.precipitation = obs.precipitation
                   /\ w.conditions = obs.conditions
                   /\ IF "temperature" \in DOMAIN obs
                      THEN w.temperature = obs.temperature
                      ELSE w.temperature - base \in (0 - 10) .. 10

\* C19 witness: no temperature in either answer; Madrid gets 22.0 and
\* Barcelona 22.0 too, one sigma above 21.0 and one below 23.0.
C19_Witness ==
    /\ pc = "STATISTICS"
    /\ observations = <<NoTempObs, NoTempObs>>
    /\ weather_data[1].temperature = 220
    /\ weather_data[2].temperature = 220
    /\ weather_data[2].humidity = 700

\* C20: a report returned by generate_report has a grid_status among normal,
\* degraded and critical, equal to the classification of the min and max of
\* its own voltage_stats under the thresholds, and those min and max are the
\* ones of the measurement series the report carries.
C20_StatusMatchesStatistics ==
    (pc = "COMPLETE" /\ outcome.kind = "returned" /\ outcome.value # None) =>
        LET r == outcome.value[1]
            mags == {r.measurements[i].voltage_magnitude : i \in DOMAIN r.measurements}
            lo == r.voltage_stats.min
            hi == r.voltage_stats.max
        IN  /\ r.grid_status \in {"normal", "degraded", "critical"}
            /\ r.grid_status =
                   IF lo < 950 \/ hi > 1050 THEN "critical"
                   ELSE IF lo < 970 \/ hi > 1030 THEN "degraded"
                   ELSE "normal"
            /\ mags # {}
            /\ lo \in mags
            /\ hi \in mags
            /\ \A m \in mags : lo <= m /\ m <= hi
            /\ r.measurements = measurements

\* C20 witness: a two-tick series whose second tick dips to 0.94 gives a
\* report with min 0.94 and status critical.
C20_Witness ==
    /\ pc = "COMPLETE"
    /\ outcome.kind = "returned"
    /\ outcome.value # None
    /\ Len(outcome.value[1].measurements) = 2 * bus_count
    /\ outcome.value[1].measurements[1].voltage_magnitude = 1000
    /\ outcome.value[1].voltage_stats.min = 940
    /\ outcome.value[1].voltage_stats.max = 1000
    /\ outcome.value[1].grid_status = "critical"

(***************************************************************************)
(* Properties of the session, of the narrative timeout and of the          *)
(* simulator's read paths.                                                 *)
(***************************************************************************)

\* C21: the narrative session is acquired when the aggregator is entered and
\* released when it is exited on every exit path: it is open inside the
\* `async with` block and closed after it, whether generate_report returned or
\* raised in any stage, and once it is closed no request is made with it
C21_SessionScoped ==
    /\ [](/\ scope = "before" => session = "None"
          /\ scope = "inside" => session = "open"
          /\ scope = "after"  => session = "closed")
    /\ [][session = "closed" => UNCHANGED <<http, pc, report, outcome>>]_vars

\* the block is left through an exception raised while collecting, before any
\* narrative call, and the session is closed
C21_Witness ==
    /\ scope = "after"
    /\ pc = "FAILED"
    /\ raisedIn = "COLLECTING"
    /\ ~http.called
    /\ session = "closed"

\* C22: a narrative request the endpoint never answers does not hold the
\* report back: the pending request ends, by the session's timeout at the
\* latest, and generate_report returns the report; when it ended by the
\* timeout the narrative is absent, as after an HTTP failure
C22_TimeoutDelivers ==
    (pc = "AWAITING") ~>
        (/\ pc = "COMPLETE"
         /\ outcome.kind = "returned"
         /\ outcome.value # None
         /\ http.response = Some(TimedOut) => outcome.value[1].exec_summary = None)

\* the endpoint never answered, the timeout fired and the report was returned
\* without a narrative
C22_Witness ==
    /\ pc = "COMPLETE"
    /\ http.response = Some(TimedOut)
    /\ outcome.kind = "returned"
    /\ outcome.value[1].exec_summary = None
    /\ outcome.value[1].measurements # <<>>

\* C23: get_measurements is read-only and hands out copies: the call leaves
\* current_time, the magnitudes, the angles and active_faults as they are and
\* returns their current values; a later write to a returned array leaves the
\* simulator's state as it is, and a later inject_fault or update_state leaves
\* the returned dict as it is
C23_ReadOnlyCopies ==
    [][/\ simOp'.op = "get_measurements" =>
            /\ UNCHANGED <<current_time, voltage_magnitudes, voltage_angles, active_faults>>
            /\ returned' # <<>>
            /\ returned'[1].timestamp = current_time
            /\ returned'[1].voltage_magnitudes.data = voltage_magnitudes
            /\ returned'[1].voltage_angles.data = voltage_angles
            /\ Len(returned'[1].active_faults) = Len(active_faults)
       /\ simOp'.op = "mutate_returned" =>
            UNCHANGED <<current_time, voltage_magnitudes, voltage_angles, active_faults>>
       /\ simOp'.op \in {"inject_fault", "update_state"} => UNCHANGED returned
      ]_vars

\* a dict was returned, the caller overwrote the magnitude of bus 0 in it, and
\* a fault was then injected at bus 1: each side shows its own change only
C23_Witness ==
    /\ returned # <<>>
    /\ simOp.op = "inject_fault"
    /\ returned[1].voltage_magnitudes.data[0] = Overwritten
    /\ voltage_magnitudes[0] = 1000 * MagScale
    /\ returned[1].voltage_magnitudes.data[1] = 1000 * MagScale
    /\ voltage_magnitudes[1] = 500 * MagScale

\* C24: get_voltage_measurements returns one (magnitude, angle) pair per bus
\* id 0..bus_count-1, drawn around 1.0 p.u. whatever update_state and
\* inject_fault have made of the state, and fetch_grid_data, on its own or
\* within generate_report, leaves current_time, the magnitudes, the angles
\* and active_faults unchanged
C24_MemorylessSampling ==
    [][(pc = "fetch_grid_data" /\ pc' = "fetch_outages") =>
          /\ UNCHANGED <<current_time, voltage_magnitudes, voltage_angles, active_faults>>
          /\ Len(measurements') % bus_count = 0
          /\ \A i \in DOMAIN measurements' :
                /\ measurements'[i].bus_id = (i - 1) % bus_count
                /\ measurements'[i].voltage_magnitude \in MagSamples
                /\ measurements'[i].voltage_angle = AngleSample
      ]_vars

\* the magnitude of bus 0 stands halved in the state, with its fault active and
\* the clock advanced, and the series fetched then shows bus 0 at 1.0 p.u.
C24_Witness ==
    /\ pc = "fetch_outages"
    /\ active_faults # <<>>
    /\ current_time > 0
    /\ voltage_magnitudes[0] < ClipLow
    /\ Len(measurements) = 2 * bus_count
    /\ measurements[1].bus_id = 0
    /\ measurements[1].voltage_magnitude = 1000

\* C25: two generate_report calls interleaved at their suspension points on
\* one agent do not interfere: the report of each call carries the series
\* built from its own get_voltage_measurements draws over its own window, the
\* statistics, status, alerts and recommendations of that series, the outage
\* lists of its own window, and one weather sample per location made from the
\* answers the provider gave to that call
C25_NoInterference ==
    \A c \in TaskIds :
        tasks[c].report # None =>
            LET t == tasks[c]
                rep == t.report[1]
                ms == GridData(TickTimes(t.window.start_time, t.window.end_time), t.draws)
                outs == [active   |-> get_active_outages(df, t.window.end_time),
                         resolved |-> get_resolved_outages(df, t.window.start_time,
                                                           t.window.end_time).value[1]]
                a == analyze_grid_status(ms, outs).value[1]
            IN  /\ t.window.end_time - t.window.start_time = TaskRange[c]
                /\ rep.measurements = ms
                /\ rep.voltage_stats = VoltageStats(Magnitudes(ms))
                /\ rep.active_outages = outs.active
                /\ rep.resolved_outages = outs.resolved
                /\ Len(t.obs) = Len(Locations)
                /\ Len(rep.weather_data) = Len(Locations)
                /\ \A i \in DOMAIN rep.weather_data :
                      rep.weather_data[i] =
                          WeatherSample(Locations[i], t.obs[i], t.noise[i],
                                        t.window.end_time).value[1]
                /\ rep.grid_status = a.status
                /\ rep.alerts = a.alerts
                /\ rep.recommendations = a.recommendations

\* both calls have returned their reports; the first ran to its return while
\* the second was suspended in its weather fetch, and the two were given
\* different voltages and different weather answers
C25_Witness ==
    /\ \A c \in TaskIds : tasks[c].pc = "COMPLETE"
    /\ tasks[1].peer = "AWAIT_OBS"
    /\ tasks[2].peer = "COMPLETE"
    /\ tasks[1].obs = <<MockObs, MockObs>>
    /\ tasks[2].obs = <<NoTempObs, NoTempObs>>
    /\ tasks[1].report[1].grid_status = "normal"
    /\ tasks[2].report[1].grid_status = "critical"
    /\ tasks[2].report[1].exec_summary # None

\* the fetch coroutines generate_report has started and not yet seen finish
InFlight == {f \in {"fetch_grid_data", "fetch_outages", "fetch_weather"} : pc = f}

\* C26: generate_report fans the three fetches out as independent tasks: while
\* the grid fetch has not finished, the outage fetch and the weather fetch
\* are in flight as well
C26_FetchesFannedOut ==
    "fetch_grid_data" \in InFlight => {"fetch_outages", "fetch_weather"} \subseteq InFlight

\* whether the list of fault entries holds one for bus b
HasFault(faults, b) == \E i \in DOMAIN faults : faults[i][1] = b

\* the largest magnitude noise of one tick
NoiseMax == 100 * MagScale

\* C27: a fault is a magnitude reduction that lasts for the fault's duration:
\* an update_state that leaves the entry of bus b in active_faults leaves the
\* magnitude of b at its reduced level, up to the noise of the tick
C27_FaultHoldsReduction ==
    [][simOp'.op = "update_state" =>
          \A b \in Buses :
              (HasFault(active_faults, b) /\ HasFault(active_faults', b)) =>
                  /\ voltage_magnitudes'[b] - voltage_magnitudes[b] <= NoiseMax
                  /\ voltage_magnitudes[b] - voltage_magnitudes'[b] <= NoiseMax
      ]_vars

\* C28: active_faults behaves as a set: get_measurements lists each bus that
\* has an active fault exactly once, also after repeated injections on it
C28_FaultBusesListedOnce ==
    \A b \in Buses :
        Reported(get_measurements.active_faults, b) =
            (IF HasFault(active_faults, b) THEN 1 ELSE 0)

\* C29: a generate_report call with time_range_minutes >= 0 hands a series of
\* at least bus_count measurements to the statistics and to the
\* classification, and is not aborted by min() or max() of an empty series
C29_SeriesNonEmpty ==
    window.start_time <= window.end_time =>
        /\ pc \in {"STATISTICS", "CLASSIFYING", "NARRATING", "COMPLETE"} =>
                Len(measurements) >= bus_count
        /\ ~(pc = "FAILED" /\ raisedIn \in {"STATISTICS", "CLASSIFYING"}
                           /\ outcome.exc = "ValueError")

\* generate_report(0) has returned its report: one tick, bus_count measurements
C29_Witness ==
    /\ pc = "COMPLETE"
    /\ outcome.kind = "returned"
    /\ window.start_time = window.end_time
    /\ Len(outcome.value[1].measurements) = bus_count
    /\ voltage_stats # None

====
